---- MODULE Spec2Model ----
(***************************************************************************)
(* Mortgage pre-approval API: the decision logic of app/models.py, the     *)
(* API-key check of app/auth.py and the endpoints of app/main.py over the  *)
(* loan-application table.                                                 *)
(*                                                                         *)
(* Amounts are whole dollars (binary64 holds them exactly).  A ratio that  *)
(* round(x, 2) returned is held as its number of hundredths h: the float   *)
(* nearest to h/100.                                                       *)
(***************************************************************************)
EXTENDS Integers, Sequences, FiniteSets, TLC

VARIABLES store, req, resp, evaluated, issued, fn

vars == <<store, req, resp, evaluated, issued, fn>>

(***************************************************************************)
(* Python float (IEEE-754 binary64) arithmetic, as used by                 *)
(*     dti = (monthly_debts / monthly_income) * 100                        *)
(*     return round(dti, 2)                                                *)
(* Natural numbers wider than a machine word are little-endian sequences   *)
(* of limbs.                                                               *)
(***************************************************************************)
LimbBits == 15

Limb == 32768

MantissaBits == 53

RECURSIVE Pow2(_)
Pow2(n) == IF n = 0 THEN 1 ELSE 2 * Pow2(n - 1)

RECURSIVE Bits(_)
Bits(n) == IF n = 0 THEN 0 ELSE 1 + Bits(n \div 2)

RECURSIVE Norm(_)
Norm(a) ==
    IF a = <<>> THEN <<>>
    ELSE IF a[Len(a)] = 0 THEN Norm(SubSeq(a, 1, Len(a) - 1))
    ELSE a

ToBig(n) == Norm(<<n % Limb, n \div Limb>>)

ToInt(a) ==
    IF a = <<>> THEN 0
    ELSE IF Len(a) = 1 THEN a[1]
    ELSE a[1] + Limb * a[2]

BitLen(a) == IF a = <<>> THEN 0 ELSE LimbBits * (Len(a) - 1) + Bits(a[Len(a)])

IsOdd(a) == a # <<>> /\ a[1] % 2 = 1

RECURSIVE MulCarry(_, _, _)
MulCarry(a, k, c) ==
    IF a = <<>> THEN (IF c = 0 THEN <<>> ELSE <<c>>)
    ELSE LET t == Head(a) * k + c
         IN  <<t % Limb>> \o MulCarry(Tail(a), k, t \div Limb)

MulSmall(a, k) == Norm(MulCarry(a, k, 0))

RECURSIVE DivSmall(_, _)
DivSmall(a, k) ==
    IF a = <<>> THEN [q |-> <<>>, r |-> 0]
    ELSE LET hi == DivSmall(Tail(a), k)
             t  == hi.r * Limb + Head(a)
         IN  [q |-> <<t \div k>> \o hi.q, r |-> t % k]

RECURSIVE AddOne(_)
AddOne(a) ==
    IF a = <<>> THEN <<1>>
    ELSE IF Head(a) + 1 < Limb THEN <<Head(a) + 1>> \o Tail(a)
    ELSE <<0>> \o AddOne(Tail(a))

RECURSIVE ShiftLeftLimbs(_, _)
ShiftLeftLimbs(a, n) == IF n = 0 \/ a = <<>> THEN a ELSE <<0>> \o ShiftLeftLimbs(a, n - 1)

\* a shifted right by `bits`; sticky records whether a non-zero bit was lost.
RECURSIVE ShiftRightSticky(_, _, _)
ShiftRightSticky(a, bits, sticky) ==
    IF a = <<>> THEN [q |-> <<>>, sticky |-> sticky]
    ELSE IF bits >= LimbBits
         THEN ShiftRightSticky(Tail(a), bits - LimbBits, sticky \/ Head(a) # 0)
    ELSE LET dv == DivSmall(a, Pow2(bits))
         IN  [q |-> Norm(dv.q), sticky |-> sticky \/ dv.r # 0]

\* q + rem/2 + (a little, if sticky) rounded to the nearest integer, ties to
\* even (the default IEEE-754 rounding, and the rounding of float.__round__).
TieToEven(q, rem, sticky) ==
    IF rem = 1 /\ (sticky \/ IsOdd(q)) THEN AddOne(q) ELSE q

\* The same with ties rounded up (round-half-up).
TieUp(q, rem, sticky) == IF rem = 1 THEN AddOne(q) ELSE q

HalveToEven(s) == TieToEven(Norm(DivSmall(s.q, 2).q), DivSmall(s.q, 2).r, s.sticky)

HalveUp(s) == TieUp(Norm(DivSmall(s.q, 2).q), DivSmall(s.q, 2).r, s.sticky)

\* a / 2^bits (bits >= 1) rounded to the nearest integer, ties to even.
RoundNearestEven(a, bits, sticky) == HalveToEven(ShiftRightSticky(a, bits - 1, sticky))

RoundNearestHalfUp(a, bits, sticky) == HalveUp(ShiftRightSticky(a, bits - 1, sticky))

\* A rounded mantissa that reached 2^53 is halved and the exponent raised.
Renormalize(m, e) ==
    IF BitLen(m) > MantissaBits
    THEN [m |-> Norm(DivSmall(m, 2).q), e |-> e + 1]
    ELSE [m |-> m, e |-> e]

\* The binary64 value nearest to a * 2^e (a with at least 54 bits): a 53-bit
\* mantissa m and an exponent, value m * 2^e.
ToBinary64(a, sticky, e) ==
    Renormalize(RoundNearestEven(a, BitLen(a) - MantissaBits, sticky),
                e + BitLen(a) - MantissaBits)

FloatZero == [m |-> <<>>, e |-> 0]

Quotient(dv, e) == ToBinary64(Norm(dv.q), dv.r # 0, e)

\* float.__truediv__ on two whole-dollar amounts, 0 <= a < Limb, 0 < b < Limb.
float_truediv(a, b) ==
    IF a = 0 THEN FloatZero
    ELSE Quotient(DivSmall(ShiftLeftLimbs(ToBig(a), 5), b), 0 - 5 * LimbBits)

\* float.__mul__ by a small whole number k.
float_mul(x, k) ==
    IF x.m = <<>> THEN FloatZero
    ELSE ToBinary64(MulSmall(x.m, k), FALSE, x.e)

\* float.__round__(x, 2) for 0 <= x < 2^52: the correctly rounded number of
\* hundredths of the exact value of x.
float_round_half_up(x) ==
    IF x.m = <<>> THEN 0
    ELSE ToInt(RoundNearestHalfUp(MulSmall(x.m, 100), 0 - x.e, FALSE))

float_round(x) ==
    IF x.m = <<>> THEN 0
    ELSE ToInt(RoundNearestEven(MulSmall(x.m, 100), 0 - x.e, FALSE))

Abs(n) == IF n < 0 THEN 0 - n ELSE n

\* The outcome of a call that returned the float dti rounded to h hundredths.
Returned(negative, dti, h) ==
    [raised |-> "", dti |-> dti, value |-> IF negative THEN 0 - h ELSE h]

Rounded(negative, dti) == Returned(negative, dti, float_round(dti))

\* calculate_dti with the guard `monthly_income == 0`: a negative income divides.
calculate_dti_zero_only(monthly_debts, monthly_income) ==
    IF monthly_income = 0
    THEN [raised |-> "ValueError",
          detail |-> "Monthly income must be greater than zero"]
    ELSE Rounded((monthly_debts < 0) # (monthly_income < 0),
                 float_mul(float_truediv(Abs(monthly_debts), Abs(monthly_income)), 100))

\* calculate_dti: an outcome, either the ValueError or the ratio in hundredths.
calculate_dti(monthly_debts, monthly_income) ==
    IF monthly_income <= 0
    THEN [raised |-> "ValueError",
          detail |-> "Monthly income must be greater than zero"]
    ELSE Rounded(monthly_debts < 0,
                 float_mul(float_truediv(Abs(monthly_debts), monthly_income), 100))

(***************************************************************************)
(* app/models.py: the request contract and the decision logic.             *)
(***************************************************************************)
MinNameLength == 2

MaxNameLength == 100

MinCreditScore == 300

MaxCreditScore == 850

CreditScoreFloor == 600

\* The 45 of `dti > 45`, in hundredths.
MaxDti == 4500

\* LoanApplicationRequest without the upper end of the credit-score range.
LoanApplicationRequest_no_upper_score(body) ==
    {f \in {"applicant_name", "monthly_income", "monthly_debts",
            "credit_score", "loan_amount"} :
        \/ f = "applicant_name" /\ (Len(body.applicant_name) < MinNameLength
                                    \/ Len(body.applicant_name) > MaxNameLength)
        \/ f = "monthly_income" /\ ~(body.monthly_income > 0)
        \/ f = "monthly_debts" /\ ~(body.monthly_debts >= 0)
        \/ f = "credit_score" /\ body.credit_score < MinCreditScore
        \/ f = "loan_amount" /\ ~(body.loan_amount > 0)}

\* LoanApplicationRequest with monthly_income declared ge=0 instead of gt=0.
LoanApplicationRequest_income_ge(body) ==
    {f \in {"applicant_name", "monthly_income", "monthly_debts",
            "credit_score", "loan_amount"} :
        \/ f = "applicant_name" /\ (Len(body.applicant_name) < MinNameLength
                                    \/ Len(body.applicant_name) > MaxNameLength)
        \/ f = "monthly_income" /\ ~(body.monthly_income >= 0)
        \/ f = "monthly_debts" /\ ~(body.monthly_debts >= 0)
        \/ f = "credit_score" /\ (body.credit_score < MinCreditScore
                                  \/ body.credit_score > MaxCreditScore)
        \/ f = "loan_amount" /\ ~(body.loan_amount > 0)}

\* The fields of a request body that pydantic rejects (LoanApplicationRequest).
LoanApplicationRequest(body) ==
    {f \in {"applicant_name", "monthly_income", "monthly_debts",
            "credit_score", "loan_amount"} :
        \/ f = "applicant_name" /\ (Len(body.applicant_name) < MinNameLength
                                    \/ Len(body.applicant_name) > MaxNameLength)
        \/ f = "monthly_income" /\ ~(body.monthly_income > 0)
        \/ f = "monthly_debts" /\ ~(body.monthly_debts >= 0)
        \/ f = "credit_score" /\ (body.credit_score < MinCreditScore
                                  \/ body.credit_score > MaxCreditScore)
        \/ f = "loan_amount" /\ ~(body.loan_amount > 0)}

LoanDecisionResponse(decision, message, dti_ratio, credit_score) ==
    [decision |-> decision, message |-> message,
     dti_ratio |-> dti_ratio, credit_score |-> credit_score]

\* str() of the float nearest to h/100, h >= 0: "30.0", "45.01", "50.5".
format_float(h) ==
    ToString(h \div 100) \o "." \o
    (IF h % 10 = 0 THEN ToString((h % 100) \div 10)
     ELSE ToString((h % 100) \div 10) \o ToString(h % 10))

\* Step 2 of evaluate_application with the two rules in the order of its
\* docstring.
rules_dti_first(application, c) ==
    IF c.raised # "" THEN [raised |-> c.raised, detail |-> c.detail]
    ELSE IF c.value > MaxDti
    THEN [raised |-> "",
          result |-> LoanDecisionResponse("declined",
              "Debt-to-income ratio of " \o format_float(c.value)
                  \o "% exceeds maximum of 45%.",
              c.value, application.credit_score)]
    ELSE IF application.credit_score < CreditScoreFloor
    THEN [raised |-> "",
          result |-> LoanDecisionResponse("declined",
              "Credit score of " \o ToString(application.credit_score)
                  \o " is below minimum requirement of 600.",
              c.value, application.credit_score)]
    ELSE [raised |-> "",
          result |-> LoanDecisionResponse("approved",
              "Applicant approved based on healthy DTI and credit score.",
              c.value, application.credit_score)]

evaluate_application_dti_first(application) ==
    rules_dti_first(application,
        calculate_dti(application.monthly_debts, application.monthly_income))

\* Step 2 of evaluate_application, c being the outcome of step 1: an error of
\* calculate_dti propagates, else the first rule that matches decides.
rules(application, c) ==
    IF c.raised # "" THEN [raised |-> c.raised, detail |-> c.detail]
    ELSE IF application.credit_score < CreditScoreFloor
    THEN [raised |-> "",
          result |-> LoanDecisionResponse("declined",
              "Credit score of " \o ToString(application.credit_score)
                  \o " is below minimum requirement of 600.",
              c.value, application.credit_score)]
    ELSE IF c.value > MaxDti
    THEN [raised |-> "",
          result |-> LoanDecisionResponse("declined",
              "Debt-to-income ratio of " \o format_float(c.value)
                  \o "% exceeds maximum of 45%.",
              c.value, application.credit_score)]
    ELSE [raised |-> "",
          result |-> LoanDecisionResponse("approved",
              "Applicant approved based on healthy DTI and credit score.",
              c.value, application.credit_score)]

evaluate_application(application) ==
    rules(application,
        calculate_dti(application.monthly_debts, application.monthly_income))

(***************************************************************************)
(* Direct calls of the two functions, as the unit tests make them.         *)
(***************************************************************************)
RECURSIVE NameOfLength(_)
NameOfLength(n) == IF n = 0 THEN "" ELSE "x" \o NameOfLength(n - 1)

FnDebts == {-1, 0, 1, 3, 23, 49, 500, 1500, 2250, 2500, 4501, 13501}

FnIncomes == {-5000, 0, 160, 800, 1111, 5000, 10000, 30000}

FnScores == {300, 550, 599, 600, 720, 850}

FnApplications ==
    [applicant_name : {NameOfLength(2)}, monthly_income : FnIncomes,
     monthly_debts : FnDebts, credit_score : FnScores, loan_amount : {250000}]

NoRequest == [op |-> "none"]

NoResponse == [status |-> 0]

InitFn ==
    /\ store = <<>>
    /\ req = NoRequest
    /\ resp = NoResponse
    /\ evaluated = FALSE
    /\ issued = {}
    /\ fn \in [pc : {"start"}, application : FnApplications]

CallCalculateDti ==
    /\ fn.pc = "start"
    /\ fn' = [pc |-> "calculate_dti", application |-> fn.application,
              outcome |-> calculate_dti(fn.application.monthly_debts,
                                        fn.application.monthly_income)]
    /\ UNCHANGED <<store, req, resp, evaluated, issued>>

CallEvaluateApplication ==
    /\ fn.pc = "start"
    /\ fn' = [pc |-> "evaluate_application", application |-> fn.application,
              outcome |-> evaluate_application(fn.application)]
    /\ UNCHANGED <<store, req, resp, evaluated, issued>>

NextFn == CallCalculateDti \/ CallEvaluateApplication

SpecFn == InitFn /\ [][NextFn]_vars

(***************************************************************************)
(* app/auth.py: the shared-secret check on the X-API-Key header.           *)
(***************************************************************************)
API_KEY == "default_dev_key_change_in_production"

None == [present |-> FALSE]

\* APIKeyHeader(name="X-API-Key", auto_error=False): the header or None.
api_key_header(headers) ==
    IF "X-API-Key" \in DOMAIN headers
    THEN [present |-> TRUE, value |-> headers["X-API-Key"]]
    ELSE None

\* verify_api_key accepting every key that is present.
verify_api_key_any_present(api_key) ==
    IF api_key = None
    THEN [raised |-> "HTTPException", status_code |-> 403,
          detail |-> "API Key is missing. Please provide X-API-Key in headers."]
    ELSE [raised |-> "", value |-> api_key.value]

verify_api_key(api_key) ==
    IF api_key = None
    THEN [raised |-> "HTTPException", status_code |-> 403,
          detail |-> "API Key is missing. Please provide X-API-Key in headers."]
    ELSE IF api_key.value # API_KEY
    THEN [raised |-> "HTTPException", status_code |-> 403,
          detail |-> "Invalid API Key"]
    ELSE [raised |-> "", value |-> api_key.value]

(***************************************************************************)
(* app/main.py: the endpoints.  store is the loan-application table in     *)
(* insertion order; created_at, which no endpoint reads back into a        *)
(* decision, is left out of the rows.  req and resp are the last request   *)
(* and its response; evaluated tells whether that request reached          *)
(* evaluate_application; issued remembers every id a 201 response carried  *)
(* together with the body that was submitted.                              *)
(***************************************************************************)
MaxRecords == 2

\* The row create_application builds with the fields in the wrong places.
LoanApplication_swapped(id, application, decision) ==
    [id |-> id,
     applicant_name |-> application.applicant_name,
     monthly_income |-> application.monthly_debts,
     monthly_debts |-> application.monthly_income,
     credit_score |-> application.credit_score,
     loan_amount |-> application.loan_amount,
     dti_ratio |-> decision.dti_ratio,
     decision |-> decision.decision,
     decision_message |-> decision.message]

LoanApplication(id, application, decision) ==
    [id |-> id,
     applicant_name |-> application.applicant_name,
     monthly_income |-> application.monthly_income,
     monthly_debts |-> application.monthly_debts,
     credit_score |-> application.credit_score,
     loan_amount |-> application.loan_amount,
     dti_ratio |-> decision.dti_ratio,
     decision |-> decision.decision,
     decision_message |-> decision.message]

RECURSIVE MaxId(_)
MaxId(rows) ==
    IF rows = <<>> THEN 0
    ELSE LET m == MaxId(Tail(rows))
         IN  IF Head(rows).id > m THEN Head(rows).id ELSE m

\* The integer primary key SQLite gives a new row.
NextId(rows) == MaxId(rows) + 1

HTTPError(exc) == [status |-> exc.status_code, body |-> [detail |-> exc.detail]]

ValidationError(errors) == [status |-> 422, body |-> [detail |-> errors]]

ServerError == [status |-> 500, body |-> [detail |-> "Internal Server Error"]]

health_check ==
    /\ req' = [op |-> "GET /health"]
    /\ resp' = [status |-> 200,
                body |-> [status |-> "healthy",
                          message |-> "Mortgage Pre-Approval API is running"]]
    /\ evaluated' = FALSE
    /\ UNCHANGED <<store, issued, fn>>

\* get_application answering with the first row, the where clause dropped.
get_application_first(application_id) ==
    /\ req' = [op |-> "GET /applications/{id}", application_id |-> application_id]
    /\ resp' = IF store = <<>>
               THEN [status |-> 404,
                     body |-> [detail |-> "Application with ID "
                                   \o ToString(application_id) \o " not found"]]
               ELSE [status |-> 200, body |-> store[1]]
    /\ evaluated' = FALSE
    /\ UNCHANGED <<store, issued, fn>>

get_application(application_id) ==
    LET application == SelectSeq(store, LAMBDA row : row.id = application_id)
    IN  /\ req' = [op |-> "GET /applications/{id}", application_id |-> application_id]
        /\ resp' = IF application = <<>>
                   THEN [status |-> 404,
                         body |-> [detail |-> "Application with ID "
                                       \o ToString(application_id) \o " not found"]]
                   ELSE [status |-> 200, body |-> application[1]]
        /\ evaluated' = FALSE
        /\ UNCHANGED <<store, issued, fn>>

\* The response to a request that got past the key check and validation.
Decided(status, decision) ==
    IF decision.raised # "" THEN ServerError
    ELSE [status |-> status, body |-> decision.result]

\* What session.add / commit / refresh leave behind, and the 201 response.
Created(rows, ids, application, decision) ==
    IF decision.raised # ""
    THEN [resp |-> ServerError, store |-> rows, issued |-> ids]
    ELSE [resp |-> [status |-> 201,
                    body |-> [id |-> NextId(rows),
                              decision |-> decision.result.decision,
                              message |-> decision.result.message,
                              dti_ratio |-> decision.result.dti_ratio]],
          store |-> Append(rows, LoanApplication(NextId(rows), application,
                                                 decision.result)),
          issued |-> ids \cup {[id |-> NextId(rows), request |-> application]}]

Rejected(response) == [resp |-> response, store |-> store, issued |-> issued]

\* simulate_approval that also saves what it evaluated.
simulate_approval_saving(headers, application) ==
    LET auth   == verify_api_key(api_key_header(headers))
        errors == LoanApplicationRequest(application)
        saved  == IF auth.raised # "" \/ errors # {} \/ Len(store) >= MaxRecords
                  THEN store
                  ELSE Created(store, issued, application,
                               evaluate_application(application)).store
    IN  /\ req' = [op |-> "POST /simulate", headers |-> headers, body |-> application]
        /\ evaluated' = (auth.raised = "" /\ errors = {})
        /\ resp' = IF auth.raised # "" THEN HTTPError(auth)
                   ELSE IF errors # {} THEN ValidationError(errors)
                   ELSE Decided(200, evaluate_application(application))
        /\ store' = saved
        /\ UNCHANGED <<issued, fn>>

simulate_approval(headers, application) ==
    LET auth   == verify_api_key(api_key_header(headers))
        errors == LoanApplicationRequest(application)
    IN  /\ req' = [op |-> "POST /simulate", headers |-> headers, body |-> application]
        /\ evaluated' = (auth.raised = "" /\ errors = {})
        /\ resp' = IF auth.raised # "" THEN HTTPError(auth)
                   ELSE IF errors # {} THEN ValidationError(errors)
                   ELSE Decided(200, evaluate_application(application))
        /\ UNCHANGED <<store, issued, fn>>

create_application(headers, application) ==
    LET auth   == verify_api_key(api_key_header(headers))
        errors == LoanApplicationRequest(application)
        out    == IF auth.raised # "" THEN Rejected(HTTPError(auth))
                  ELSE IF errors # {} THEN Rejected(ValidationError(errors))
                  ELSE Created(store, issued, application,
                               evaluate_application(application))
    IN  /\ (auth.raised = "" /\ errors = {}) => Len(store) < MaxRecords
        /\ req' = [op |-> "POST /applications", headers |-> headers, body |-> application]
        /\ evaluated' = (auth.raised = "" /\ errors = {})
        /\ resp' = out.resp
        /\ store' = out.store
        /\ issued' = out.issued
        /\ UNCHANGED fn

\* list_applications answering with the first row only (.first() for .all()).
list_applications_first ==
    /\ req' = [op |-> "GET /applications"]
    /\ resp' = [status |-> 200, body |-> IF store = <<>> THEN <<>> ELSE <<store[1]>>]
    /\ evaluated' = FALSE
    /\ UNCHANGED <<store, issued, fn>>

list_applications ==
    /\ req' = [op |-> "GET /applications"]
    /\ resp' = [status |-> 200, body |-> store]
    /\ evaluated' = FALSE
    /\ UNCHANGED <<store, issued, fn>>

(***************************************************************************)
(* The requests a client sends.                                            *)
(***************************************************************************)
NoHeaders == [h \in {} |-> ""]

Headers == {NoHeaders, [h \in {"X-API-Key"} |-> "wrong_key"],
            [h \in {"X-API-Key"} |-> API_KEY]}

GoodApplication ==
    [applicant_name |-> NameOfLength(2), monthly_income |-> 5000,
     monthly_debts |-> 1500, credit_score |-> 600, loan_amount |-> 250000]

\* Bodies inside every range: a DTI of 30.0, of 50.0 and of 45.0045 before
\* rounding, a score on each side of 600, and a name of the longest length.
InRangeBodies ==
    {[GoodApplication EXCEPT !.monthly_income = f[1], !.monthly_debts = f[2],
                             !.credit_score = c] :
        f \in {<<5000, 1500>>, <<5000, 2500>>, <<1111, 500>>},
        c \in {599, 600}}
    \cup {[GoodApplication EXCEPT !.applicant_name = NameOfLength(100)]}

\* GoodApplication with one field out of range.
OutOfRangeBodies ==
    {[GoodApplication EXCEPT !.applicant_name = n] : n \in {NameOfLength(1), NameOfLength(101)}}
    \cup {[GoodApplication EXCEPT !.monthly_income = v] : v \in {0, -5000}}
    \cup {[GoodApplication EXCEPT !.monthly_debts = v] : v \in {-1}}
    \cup {[GoodApplication EXCEPT !.credit_score = v] : v \in {299, 851}}
    \cup {[GoodApplication EXCEPT !.loan_amount = v] : v \in {0, -1}}

Bodies == InRangeBodies \cup OutOfRangeBodies

Ids == 0..(MaxRecords + 1)

Init ==
    /\ store = <<>>
    /\ req = NoRequest
    /\ resp = NoResponse
    /\ evaluated = FALSE
    /\ issued = {}
    /\ fn = [pc |-> "idle"]

Next ==
    \/ health_check
    \/ \E id \in Ids : get_application(id)
    \/ \E h \in Headers, b \in Bodies : simulate_approval(h, b)
    \/ \E h \in Headers, b \in Bodies : create_application(h, b)
    \/ list_applications

Spec == Init /\ [][Next]_vars

(***************************************************************************)
(* Properties of the two functions (SpecFn).                               *)
(***************************************************************************)
RangeValid(a) ==
    /\ Len(a.applicant_name) >= 2 /\ Len(a.applicant_name) <= 100
    /\ a.monthly_income > 0
    /\ a.monthly_debts >= 0
    /\ a.credit_score >= 300 /\ a.credit_score <= 850
    /\ a.loan_amount > 0

\* The outcome of the last call is what the ordered rules give for request a
\* with a computed dti of h hundredths.
FirstMatchWins(a, h) ==
    /\ fn.outcome.raised = ""
            /\ fn.outcome.result.dti_ratio = h
            /\ fn.outcome.result.credit_score = a.credit_score
            /\ IF a.credit_score < 600
               THEN /\ fn.outcome.result.decision = "declined"
                    /\ fn.outcome.result.message =
                         "Credit score of " \o ToString(a.credit_score)
                             \o " is below minimum requirement of 600."
               ELSE IF h > 4500
               THEN /\ fn.outcome.result.decision = "declined"
                    /\ fn.outcome.result.message =
                         "Debt-to-income ratio of " \o format_float(h)
                             \o "% exceeds maximum of 45%."
               ELSE /\ fn.outcome.result.decision = "approved"
                    /\ fn.outcome.result.message =
                         "Applicant approved based on healthy DTI and credit score."

\* C1: for every range-valid request evaluate_application returns the result
\* of the ordered rules, first match wins: credit_score < 600 gives declined
\* with the credit-score message (also when dti > 45), else dti > 45 gives
\* declined with the debt-to-income message, else approved; both comparisons
\* are strict, and the result carries the computed dti and the credit score.
C1_OrderedRules ==
    (fn.pc = "evaluate_application" /\ RangeValid(fn.application)) =>
        FirstMatchWins(fn.application,
            calculate_dti(fn.application.monthly_debts,
                          fn.application.monthly_income).value)

\* A request on both boundaries (score 600, dti exactly 45.0) was approved.
C1_Witness ==
    /\ fn.pc = "evaluate_application"
    /\ fn.application.credit_score = 600
    /\ fn.application.monthly_debts = 2250
    /\ fn.application.monthly_income = 5000
    /\ fn.outcome.raised = ""
    /\ fn.outcome.result.decision = "approved"
    /\ fn.outcome.result.dti_ratio = 4500

RECURSIVE BigLess(_, _)
BigLess(a, b) ==
    IF Len(a) # Len(b) THEN Len(a) < Len(b)
    ELSE IF a = <<>> THEN FALSE
    ELSE IF a[Len(a)] # b[Len(b)] THEN a[Len(a)] < b[Len(b)]
    ELSE BigLess(SubSeq(a, 1, Len(a) - 1), SubSeq(b, 1, Len(b) - 1))

ShiftLeftBits(a, n) == ShiftLeftLimbs(MulSmall(a, Pow2(n % LimbBits)), n \div LimbBits)

\* h hundredths is the exact value of the float x (x >= 0, below 2^52)
\* rounded to 2 decimal places, a tie going to the even hundredth.
IsHalfEvenRounding(x, h) ==
    IF x.m = <<>> THEN h = 0
    ELSE LET p    == MulSmall(x.m, 100)
             half == 0 - x.e - 1
             hi   == ShiftLeftBits(ToBig(2 * h + 1), half)
             lo   == ShiftLeftBits(ToBig(2 * h - 1), half)
         IN  /\ h >= 0
             /\ BigLess(p, hi) \/ (p = hi /\ h % 2 = 0)
             /\ h = 0 \/ BigLess(lo, p) \/ (p = lo /\ h % 2 = 0)

\* Twice the exact value of x in hundredths is an odd whole number: x lies
\* exactly halfway between two hundredths.
IsTie(x) ==
    /\ x.m # <<>>
    /\ LET s == ShiftRightSticky(MulSmall(x.m, 100), 0 - x.e - 1, FALSE)
       IN  ~s.sticky /\ IsOdd(s.q)

C3_NonPositiveIncomeRaises ==
    (fn.pc \in {"calculate_dti", "evaluate_application"}
     /\ fn.application.monthly_income <= 0) =>
        /\ fn.outcome.raised = "ValueError"
        /\ fn.outcome.detail = "Monthly income must be greater than zero"
        /\ DOMAIN fn.outcome = {"raised", "detail"}

\* evaluate_application was called with a negative income and raised.
C3_Witness ==
    /\ fn.pc = "evaluate_application"
    /\ fn.application.monthly_income < 0
    /\ fn.outcome.raised = "ValueError"

(***************************************************************************)
(* Properties of the endpoints (Spec).                                     *)
(***************************************************************************)
PostOps == {"POST /simulate", "POST /applications"}

HasConfiguredKey(r) ==
    /\ "X-API-Key" \in DOMAIN r.headers
    /\ r.headers["X-API-Key"] = API_KEY

NoDecision(r) == "decision" \notin DOMAIN r.body

\* C4: an authenticated POST /simulate or POST /applications whose body has a
\* name shorter than 2 or longer than 100, an income <= 0, debts < 0, a score
\* below 300 or above 850, or a loan amount <= 0 is answered 422 before the
\* evaluator runs: no decision is produced and no record is stored.
C4_OutOfRangeRejected ==
    [][(/\ req'.op \in PostOps
        /\ HasConfiguredKey(req')
        /\ ~RangeValid(req'.body)) =>
           (/\ resp'.status = 422
            /\ NoDecision(resp')
            /\ ~evaluated'
            /\ store' = store
            /\ issued' = issued)]_vars

\* A score of 851 was posted to /applications with the right key and rejected,
\* the table keeping the one row it had.
C4_Witness ==
    /\ req.op = "POST /applications"
    /\ HasConfiguredKey(req)
    /\ req.body.credit_score = 851
    /\ resp.status = 422
    /\ resp.body.detail = {"credit_score"}
    /\ Len(store) = 1

\* C5: a request that passes authentication and validation never hits the
\* calculate_dti failure: it is answered 200 or 201 with a decision of
\* approved or declined.
C5_AcceptedAlwaysDecides ==
    (req.op \in PostOps /\ resp.status \notin {403, 422}) =>
        /\ evaluated
        /\ resp.status = (IF req.op = "POST /simulate" THEN 200 ELSE 201)
        /\ resp.body.decision \in {"approved", "declined"}

\* The smallest income of the request set was accepted and decided.
C5_Witness ==
    /\ req.op = "POST /simulate"
    /\ req.body.monthly_income = 1111
    /\ resp.status = 200
    /\ resp.body.decision = "approved"
    /\ evaluated

\* C6: a POST with a valid body whose X-API-Key header is missing or differs
\* from the configured key is answered 403, returns no decision and adds no
\* record; only the configured key lets the handler run.
C6_KeyRequired ==
    [][(req'.op \in PostOps) =>
          /\ (RangeValid(req'.body) /\ ~HasConfiguredKey(req')) =>
                (/\ resp'.status = 403
                 /\ NoDecision(resp')
                 /\ store' = store
                 /\ issued' = issued)
          /\ (evaluated' \/ store' # store) => HasConfiguredKey(req')]_vars

\* A valid body was posted to /applications with a wrong key and refused.
C6_Witness ==
    /\ req.op = "POST /applications"
    /\ "X-API-Key" \in DOMAIN req.headers
    /\ ~HasConfiguredKey(req)
    /\ RangeValid(req.body)
    /\ resp.status = 403
    /\ resp.body.detail = "Invalid API Key"

\* C7: POST /simulate never changes the stored records, whatever the request
\* and its outcome.
C7_SimulateDoesNotPersist ==
    [][(req'.op = "POST /simulate") => (store' = store /\ issued' = issued)]_vars

\* A simulation was approved while the table held a row.
C7_Witness ==
    /\ req.op = "POST /simulate"
    /\ resp.status = 200
    /\ resp.body.decision = "approved"
    /\ Len(store) = 1

\* row is the record with that id of request a decided as d.
IsRecordOf(row, id, a, d) ==
    /\ row.id = id
    /\ row.applicant_name = a.applicant_name
    /\ row.monthly_income = a.monthly_income
    /\ row.monthly_debts = a.monthly_debts
    /\ row.credit_score = a.credit_score
    /\ row.loan_amount = a.loan_amount
    /\ row.dti_ratio = d.dti_ratio
    /\ row.decision = d.decision
    /\ row.decision_message = d.message

\* C8: once POST /applications returned 201 with id i, GET /applications/i
\* returns 200 with the submitted fields and the dti_ratio, decision and
\* message evaluate_application gives for them, in every later state.
C8_CreatedIsRetrievable ==
    /\ (req.op = "POST /applications" /\ resp.status = 201) =>
           [id |-> resp.body.id, request |-> req.body] \in issued
    /\ \A e \in issued :
        (req.op = "GET /applications/{id}" /\ req.application_id = e.id) =>
            /\ resp.status = 200
            /\ IsRecordOf(resp.body, e.id, e.request,
                          evaluate_application(e.request).result)

\* The first application was fetched after a second one had been created.
C8_Witness ==
    /\ req.op = "GET /applications/{id}"
    /\ req.application_id = 1
    /\ resp.status = 200
    /\ Cardinality(issued) = 2
    /\ resp.body.monthly_income = 1111

\* C9: GET /applications/{id} for an id no 201 response carried is answered
\* 404 without a record and leaves the store unchanged.
C9_UnknownIdNotFound ==
    [][(/\ req'.op = "GET /applications/{id}"
        /\ \A e \in issued : e.id # req'.application_id) =>
           (/\ resp'.status = 404
            /\ DOMAIN resp'.body = {"detail"}
            /\ store' = store
            /\ issued' = issued)]_vars

\* An id that was never issued was asked for while the table held rows.
C9_Witness ==
    /\ req.op = "GET /applications/{id}"
    /\ req.application_id = 2
    /\ Len(store) = 1
    /\ resp.status = 404

\* C10: every application that POST /simulate or POST /applications approves
\* has monthly debts / monthly income, as a percentage, of 45 or lower and a
\* credit score of 600 or higher.
C10_ApprovedWithinRules ==
    (/\ req.op \in PostOps
     /\ resp.status \in {200, 201}
     /\ resp.body.decision = "approved") =>
        /\ 100 * req.body.monthly_debts <= 45 * req.body.monthly_income
        /\ req.body.credit_score >= 600

Rows(rows) == {rows[i] : i \in 1..Len(rows)}

\* The decision of row agrees with its own fields, h being calculate_dti of
\* its stored debts and income.
IsConsistent(row, h) ==
    /\ row.dti_ratio = h
    /\ row.decision \in {"approved", "declined"}
    /\ row.decision = "approved" <=> (row.credit_score >= 600 /\ row.dti_ratio <= 4500)

StoreConsistent ==
    /\ \A i, j \in 1..Len(store) : store[i].id = store[j].id => i = j
    /\ \A i \in 1..Len(store) :
          IsConsistent(store[i],
              calculate_dti(store[i].monthly_debts, store[i].monthly_income).value)

\* C11: in every reachable state every stored record has a unique id, a
\* dti_ratio that is calculate_dti of its stored debts and income and a
\* decision that is approved exactly when its credit_score >= 600 and its
\* dti_ratio <= 45, otherwise declined; no step changes or removes a stored
\* record; and GET /applications returns exactly the stored records.
C11_StoreInvariant ==
    /\ []StoreConsistent
    /\ [][/\ Rows(store) \subseteq Rows(store')
          /\ Len(store') >= Len(store)
          /\ (req'.op = "GET /applications") =>
                (/\ resp'.status = 200
                 /\ Len(resp'.body) = Len(store')
                 /\ Rows(resp'.body) = Rows(store')
                 /\ store' = store)]_vars

\* The list was fetched with an approved and a declined record in the table.
C11_Witness ==
    /\ req.op = "GET /applications"
    /\ resp.status = 200
    /\ Len(store) = 2
    /\ store[1].decision = "approved"
    /\ store[2].decision = "declined"
    /\ resp.body = store

====
